---- MODULE Spec2Model ----
(***************************************************************************)
(* State-machine model of run_curl_requests (serials.py): credential and   *)
(* server-list loading, the report sink, and the per-server query /        *)
(* classification / row-write loop.                                        *)
(*                                                                         *)
(* Text is modelled as a sequence of characters (one-character strings).   *)
(* Fixed message literals of the program are kept as a single element.     *)
(***************************************************************************)
EXTENDS Integers, Sequences, FiniteSets, TLC

VARIABLES password_file, list_file, results_file, results0,
          username, password, server_list, i,
          process, result_to_write, branch, parse_attempted,
          queryLog, completed, pc

vars == <<password_file, list_file, results_file, results0,
          username, password, server_list, i,
          process, result_to_write, branch, parse_attempted,
          queryLog, completed, pc>>

----------------------------------------------------------------------------
(* Bounds of the model *)

\* largest number of records in the server list file
MaxRows == 2
\* largest length of the exhaustively enumerated response bodies
MaxBodyLen == 2

----------------------------------------------------------------------------
(* Text helpers: str.strip, str.startswith, str.endswith, str(int) *)

Whitespace == {" ", "\n"}

RECURSIVE LStrip(_)
LStrip(s) == IF s # <<>> /\ Head(s) \in Whitespace THEN LStrip(Tail(s)) ELSE s

RECURSIVE RStrip(_)
RStrip(s) == IF s # <<>> /\ s[Len(s)] \in Whitespace
             THEN RStrip(SubSeq(s, 1, Len(s) - 1)) ELSE s

Strip(s) == RStrip(LStrip(s))

StartsWithAny(s, cs) == s # <<>> /\ s[1] \in cs
EndsWithAny(s, cs) == s # <<>> /\ s[Len(s)] \in cs

DigitChar(d) == CASE d = 0 -> "0" [] d = 1 -> "1" [] d = 2 -> "2" [] d = 3 -> "3"
                  [] d = 4 -> "4" [] d = 5 -> "5" [] d = 6 -> "6" [] d = 7 -> "7"
                  [] d = 8 -> "8" [] d = 9 -> "9"

RECURSIVE DecStr(_)
DecStr(n) == IF n < 10 THEN <<DigitChar(n)>>
             ELSE DecStr(n \div 10) \o <<DigitChar(n % 10)>>

----------------------------------------------------------------------------
(* json.loads on the characters that occur in the modelled bodies:         *)
(* objects, arrays, strings without escapes, unsigned integers.            *)

JStr(s) == [t |-> "str", s |-> s, keys |-> <<>>, kids |-> <<>>]
JNum(s) == [t |-> "num", s |-> s, keys |-> <<>>, kids |-> <<>>]
JArr(items) == [t |-> "arr", s |-> <<>>, keys |-> <<>>, kids |-> items]
JObj(ks, vs) == [t |-> "obj", s |-> <<>>, keys |-> ks, kids |-> vs]

ParseFail == [ok |-> FALSE, val |-> JStr(<<>>), next |-> 0]
ParseOk(v, n) == [ok |-> TRUE, val |-> v, next |-> n]

JsonDigits == {"0", "1", "2", "3", "4", "5", "6", "7", "8", "9"}

RECURSIVE SkipWs(_, _)
SkipWs(s, j) == IF j <= Len(s) /\ s[j] \in Whitespace THEN SkipWs(s, j + 1) ELSE j

\* index of the closing quote of the string opened before j, 0 if none
RECURSIVE StrEnd(_, _)
StrEnd(s, j) == IF j > Len(s) THEN 0
                ELSE IF s[j] = "\"" THEN j
                ELSE IF s[j] = "\n" THEN 0
                ELSE StrEnd(s, j + 1)

ParseString(s, j) ==
    LET e == StrEnd(s, j + 1)
    IN IF e = 0 THEN ParseFail ELSE ParseOk(JStr(SubSeq(s, j + 1, e - 1)), e + 1)

RECURSIVE NumEnd(_, _)
NumEnd(s, j) == IF j <= Len(s) /\ s[j] \in JsonDigits THEN NumEnd(s, j + 1) ELSE j

ParseNumber(s, j) ==
    LET e == IF s[j] = "0" THEN j + 1 ELSE NumEnd(s, j)
    IN ParseOk(JNum(SubSeq(s, j, e - 1)), e)

\* dict insertion: a repeated key keeps its position and takes the new value
DictPut(ks, vs, k, v) ==
    IF \E n \in 1..Len(ks) : ks[n] = k
    THEN LET n == CHOOSE n \in 1..Len(ks) : ks[n] = k
         IN <<ks, [vs EXCEPT ![n] = v]>>
    ELSE <<Append(ks, k), Append(vs, v)>>

RECURSIVE ParseValue(_, _)
RECURSIVE ParseMembers(_, _, _, _)
RECURSIVE ParseItems(_, _, _)

ParseMembers(s, j, ks, vs) ==
    IF j > Len(s) \/ s[j] # "\"" THEN ParseFail
    ELSE LET k == ParseString(s, j)
         IN IF ~k.ok THEN ParseFail
            ELSE LET c == SkipWs(s, k.next)
                 IN IF c > Len(s) \/ s[c] # ":" THEN ParseFail
                    ELSE LET v == ParseValue(s, SkipWs(s, c + 1))
                         IN IF ~v.ok THEN ParseFail
                            ELSE LET d == DictPut(ks, vs, k.val.s, v.val)
                                     e == SkipWs(s, v.next)
                                 IN IF e > Len(s) THEN ParseFail
                                    ELSE IF s[e] = "}" THEN ParseOk(JObj(d[1], d[2]), e + 1)
                                    ELSE IF s[e] = "," THEN ParseMembers(s, SkipWs(s, e + 1), d[1], d[2])
                                    ELSE ParseFail

ParseItems(s, j, items) ==
    LET v == ParseValue(s, j)
    IN IF ~v.ok THEN ParseFail
       ELSE LET e == SkipWs(s, v.next)
            IN IF e > Len(s) THEN ParseFail
               ELSE IF s[e] = "]" THEN ParseOk(JArr(Append(items, v.val)), e + 1)
               ELSE IF s[e] = "," THEN ParseItems(s, SkipWs(s, e + 1), Append(items, v.val))
               ELSE ParseFail

ParseValue(s, j) ==
    IF j > Len(s) THEN ParseFail
    ELSE IF s[j] = "{" THEN
        LET n == SkipWs(s, j + 1)
        IN IF n <= Len(s) /\ s[n] = "}" THEN ParseOk(JObj(<<>>, <<>>), n + 1)
           ELSE ParseMembers(s, n, <<>>, <<>>)
    ELSE IF s[j] = "[" THEN
        LET n == SkipWs(s, j + 1)
        IN IF n <= Len(s) /\ s[n] = "]" THEN ParseOk(JArr(<<>>), n + 1)
           ELSE ParseItems(s, n, <<>>)
    ELSE IF s[j] = "\"" THEN ParseString(s, j)
    ELSE IF s[j] \in JsonDigits THEN ParseNumber(s, j)
    ELSE ParseFail

\* json.loads: ok = FALSE stands for json.JSONDecodeError
JsonLoads(s) ==
    LET v == ParseValue(s, SkipWs(s, 1))
    IN IF v.ok /\ SkipWs(s, v.next) = Len(s) + 1 THEN v ELSE ParseFail

(* str() of a parsed value: a str is itself, everything else its repr *)
RECURSIVE PyRepr(_)
RECURSIVE ReprItems(_, _)
RECURSIVE ReprMembers(_, _, _)

ReprItems(vs, n) ==
    IF n > Len(vs) THEN <<>>
    ELSE (IF n > 1 THEN <<",", " ">> ELSE <<>>) \o PyRepr(vs[n]) \o ReprItems(vs, n + 1)

ReprMembers(ks, vs, n) ==
    IF n > Len(vs) THEN <<>>
    ELSE (IF n > 1 THEN <<",", " ">> ELSE <<>>)
         \o <<"'">> \o ks[n] \o <<"'", ":", " ">> \o PyRepr(vs[n])
         \o ReprMembers(ks, vs, n + 1)

PyRepr(v) ==
    CASE v.t = "str" -> <<"'">> \o v.s \o <<"'">>
      [] v.t = "num" -> v.s
      [] v.t = "arr" -> <<"[">> \o ReprItems(v.kids, 1) \o <<"]">>
      [] v.t = "obj" -> <<"{">> \o ReprMembers(v.keys, v.kids, 1) \o <<"}">>

PyStr(v) == IF v.t = "str" THEN v.s ELSE PyRepr(v)

\* the key looked up is never found
DictGetWrongKey(d, key, default) == default

\* dict.get(key, default)
DictGet(d, key, default) ==
    IF \E n \in 1..Len(d.keys) : d.keys[n] = key
    THEN d.kids[CHOOSE n \in 1..Len(d.keys) : d.keys[n] = key]
    ELSE default

----------------------------------------------------------------------------
(* Message literals of the program *)

UnknownCurlError == "Unknown curl error or connection issue."
CurlErrorPrefix == "CURL ERROR (Exit Code "
CurlErrorInfix == "): "
UnexpectedPrefix == "UNEXPECTED RESPONSE: "
NoResponseMsg == "No API response received (might be empty or timeout)."
CurlNotFoundMsg == "ERROR: 'curl' command not found. Please ensure curl is installed and accessible in your system's PATH."
ScriptExceptionPrefix == "SCRIPT EXCEPTION: An error occurred during curl execution: "
SnNotFound == "SN_NOT_FOUND"
SnKey == <<"s", "n">>
Header == << <<"Server Address">>, <<"Serial Number">> >>

\* str(e) of the exceptions that reach the generic handler
JSONDecodeErrorMsg == "JSONDecodeError"
OSErrorMsg == "OSError"
AttributeErrorMsg(v) ==
    "'" \o (CASE v.t = "arr" -> "list" [] v.t = "str" -> "str"
              [] v.t = "num" -> "int" [] OTHER -> "dict")
        \o "' object has no attribute 'get'"

----------------------------------------------------------------------------
(* The body of the try block of the loop and its two handlers *)

Proc(inv, rc, out, err) ==
    [invoke |-> inv, returncode |-> rc, stdout |-> out, stderr |-> err]

NoProcess == Proc("none", 0, <<>>, <<>>)

Outcome(b, txt, parsed) == [branch |-> b, text |-> txt, parsed |-> parsed]

LooksLikeJsonStartOnly(r) == StartsWithAny(r, {"{", "["})

LooksLikeJson(r) == StartsWithAny(r, {"{", "["}) /\ EndsWithAny(r, {"}", "]"})

ExtractSerial(json_data) == PyStr(DictGet(json_data, SnKey, JStr(<<SnNotFound>>)))

ClassifyBody(api_response) ==
    IF LooksLikeJson(api_response)
    THEN LET r == JsonLoads(api_response)
         IN IF ~r.ok
            THEN Outcome("script_exception", <<ScriptExceptionPrefix, JSONDecodeErrorMsg>>, TRUE)
            ELSE IF r.val.t # "obj"
            THEN Outcome("script_exception", <<ScriptExceptionPrefix, AttributeErrorMsg(r.val)>>, TRUE)
            ELSE Outcome("serial", ExtractSerial(r.val), TRUE)
    ELSE Outcome("unexpected", <<UnexpectedPrefix>> \o api_response, FALSE)

CurlErrorText(rc, curl_stderr) ==
    <<CurlErrorPrefix>> \o DecStr(rc) \o <<CurlErrorInfix>>
       \o (IF curl_stderr # <<>> THEN curl_stderr ELSE <<UnknownCurlError>>)

ClassifyBodyFirst(p) ==
    IF p.invoke = "FileNotFoundError"
    THEN Outcome("curl_not_found", <<CurlNotFoundMsg>>, FALSE)
    ELSE IF p.invoke = "OSError"
    THEN Outcome("script_exception", <<ScriptExceptionPrefix, OSErrorMsg>>, FALSE)
    ELSE LET api_response == Strip(p.stdout)
             curl_stderr == Strip(p.stderr)
         IN IF api_response # <<>> THEN ClassifyBody(api_response)
            ELSE IF p.returncode # 0
            THEN Outcome("curl_error", CurlErrorText(p.returncode, curl_stderr), FALSE)
            ELSE Outcome("no_response", <<NoResponseMsg>>, FALSE)

Classify(p) ==
    IF p.invoke = "FileNotFoundError"
    THEN Outcome("curl_not_found", <<CurlNotFoundMsg>>, FALSE)
    ELSE IF p.invoke = "OSError"
    THEN Outcome("script_exception", <<ScriptExceptionPrefix, OSErrorMsg>>, FALSE)
    ELSE LET api_response == Strip(p.stdout)
             curl_stderr == Strip(p.stderr)
         IN IF p.returncode # 0
            THEN Outcome("curl_error", CurlErrorText(p.returncode, curl_stderr), FALSE)
            ELSE IF api_response # <<>> THEN ClassifyBody(api_response)
            ELSE Outcome("no_response", <<NoResponseMsg>>, FALSE)

----------------------------------------------------------------------------
(* Inputs *)

\* contents of password.txt as returned by readlines()
LineU == <<"u", "\n">>
LineP == <<" ", "p", "\n">>
LineBlank == <<" ", "\n">>

PasswordFiles ==
    {[status |-> "missing", lines |-> <<>>], [status |-> "unreadable", lines |-> <<>>]}
    \cup {[status |-> "ok", lines |-> l] :
            l \in {<<>>, <<LineU>>, <<LineU, LineP>>, <<LineU, LineP, LineU>>,
                   <<LineBlank, LineP>>, <<LineU, LineBlank>>}}

\* records of ip_list.csv as produced by csv.reader
RawRows == {<<>>, << <<" ">> >>, << <<"a">> >>, << <<" ", "b", " ">>, <<"x">> >>}

ListFiles ==
    {[status |-> "missing", rows |-> <<>>], [status |-> "unreadable", rows |-> <<>>]}
    \cup {[status |-> "ok", rows |-> r] : r \in UNION {[1..n -> RawRows] : n \in 0..MaxRows}}

\* a report left by an earlier run
OldReport == <<Header, << <<"o", "l", "d">>, <<"S", "N", "0">> >> >>

\* response bodies with a meaning of their own
BodyEmptyObj == <<"{", "}">>
BodySn == <<"{", "\"", "s", "n", "\"", ":", "\"", "A", "\"", "}">>
BodySnOther == <<"{", "\"", "s", "n", "\"", ":", "\"", "A", "\"", ",", " ",
                 "\"", "o", "\"", ":", "1", "}">>
BodyOtherSn == <<" ", "{", "\"", "o", "\"", ":", "1", ",",
                 "\"", "s", "n", "\"", ":", "\"", "B", "\"", "}", "\n">>
BodyOther == <<"{", "\"", "o", "\"", ":", "1", "}">>
BodySnNum == <<"{", "\"", "s", "n", "\"", ":", "1", "0", "}">>
BodySnList == <<"{", "\"", "s", "n", "\"", ":", "[", "1", ",", "\"", "A", "\"", "]", "}">>
BodySnEmpty == <<"{", "\"", "s", "n", "\"", ":", "\"", "\"", "}">>
BodySnTwice == <<"{", "\"", "s", "n", "\"", ":", "1", ",",
                 "\"", "s", "n", "\"", ":", "\"", "A", "\"", "}">>
BodyNested == <<"{", "\"", "o", "\"", ":", "{", "\"", "s", "n", "\"", ":", "1", "}", "}">>
BodyArray == <<"[", "1", "]">>
BodyArrayObj == <<"[", "{", "\"", "s", "n", "\"", ":", "1", "}", "]">>
BodyBroken == <<"{", "b", "r", "o", "k", "e", "n">>
BodyBrokenClosed == <<"{", "b", "r", "o", "k", "e", "n", "}">>
BodyTrailingComma == <<"{", "\"", "s", "n", "\"", ":", "1", ",", "}">>
BodyExtraData == <<"{", "}", "{", "}">>
BodyLeadingZero == <<"[", "0", "1", "]">>
BodyMixed == <<"{", "\"", "s", "n", "\"", ":", "1", "]">>
BodyMixedRev == <<"[", "1", "}">>
BodyText == <<"n", "o", "t", " ", "j", "s", "o", "n">>
BodyString == <<"\"", "A", "\"">>
BodyNumber == <<"1">>

CuratedBodies ==
    {BodyEmptyObj, BodySn, BodySnOther, BodyOtherSn, BodyOther, BodySnNum,
     BodySnList, BodySnEmpty, BodySnTwice, BodyNested, BodyArray, BodyArrayObj,
     BodyBroken, BodyBrokenClosed, BodyTrailingComma, BodyExtraData,
     BodyLeadingZero, BodyMixed, BodyMixedRev, BodyText, BodyString, BodyNumber}

BodyAlphabet == {"{", "}", "[", "]", "o", " "}
ShortBodies == UNION {[1..n -> BodyAlphabet] : n \in 0..MaxBodyLen}

Stderrs == {<<>>, <<" ">>, <<"r", "\n">>}
ExitCodes == {0, 6, 28}

\* one transport result per path through the loop body
Transports ==
    {Proc("FileNotFoundError", 0, <<>>, <<>>), Proc("OSError", 0, <<>>, <<>>),
     Proc("returned", 6, <<>>, <<"r", "\n">>), Proc("returned", 28, BodySn, <<>>),
     Proc("returned", 0, <<" ">>, <<"r", "\n">>), Proc("returned", 0, BodySn, <<>>),
     Proc("returned", 0, BodyOther, <<>>), Proc("returned", 0, BodyText, <<>>),
     Proc("returned", 0, BodyBrokenClosed, <<>>), Proc("returned", 0, BodyArray, <<>>)}

\* curl missing, or curl returning (exit status, stdout, stderr)
WideTransports ==
    {Proc("FileNotFoundError", 0, <<>>, <<>>)}
    \cup {Proc("returned", 0, b, e) : b \in CuratedBodies \cup ShortBodies, e \in {<<>>, <<"r", "\n">>}}
    \cup {Proc("returned", rc, b, e) : rc \in ExitCodes \ {0},
                                       b \in {<<>>, BodySn, BodyText}, e \in Stderrs}

----------------------------------------------------------------------------
(* Loading helpers *)

RECURSIVE ServerList(_)
ServerList(rows) ==
    IF rows = <<>> THEN <<>>
    ELSE LET row == Head(rows)
         IN (IF row # <<>> /\ Strip(row[1]) # <<>> THEN <<Strip(row[1])>> ELSE <<>>)
            \o ServerList(Tail(rows))

----------------------------------------------------------------------------
(* State machine *)

Init ==
    /\ password_file \in PasswordFiles
    /\ list_file \in ListFiles
    /\ results0 \in {<<>>, OldReport}
    /\ results_file = results0
    /\ username = <<>>
    /\ password = <<>>
    /\ server_list = <<>>
    /\ i = 0
    /\ process = NoProcess
    /\ result_to_write = <<>>
    /\ branch = "none"
    /\ parse_attempted = FALSE
    /\ queryLog = <<>>
    /\ completed = FALSE
    /\ pc = "creds"

Files == <<password_file, list_file, results0>>
LoopVars == <<process, result_to_write, branch, parse_attempted, queryLog>>

\* lines 19-43 without the empty-password check
LoadCredentialsNoPasswordCheck ==
    /\ pc = "creds"
    /\ IF password_file.status # "ok" \/ Len(password_file.lines) < 2
       THEN /\ pc' = "fatal"
            /\ UNCHANGED <<username, password>>
       ELSE /\ username' = Strip(password_file.lines[1])
            /\ password' = Strip(password_file.lines[2])
            /\ pc' = IF username' = <<>> THEN "fatal" ELSE "list"
    /\ UNCHANGED <<Files, results_file, server_list, i, LoopVars, completed>>

LoadCredentials ==
    /\ pc = "creds"
    /\ IF password_file.status # "ok" \/ Len(password_file.lines) < 2
       THEN /\ pc' = "fatal"
            /\ UNCHANGED <<username, password>>
       ELSE /\ username' = Strip(password_file.lines[1])
            /\ password' = Strip(password_file.lines[2])
            /\ pc' = IF username' = <<>> \/ password' = <<>> THEN "fatal" ELSE "list"
    /\ UNCHANGED <<Files, results_file, server_list, i, LoopVars, completed>>

\* lines 45-62 without the empty-list return
LoadServerListNoEmptyCheck ==
    /\ pc = "list"
    /\ IF list_file.status # "ok"
       THEN /\ pc' = "fatal"
            /\ UNCHANGED server_list
       ELSE /\ server_list' = ServerList(list_file.rows)
            /\ pc' = "open"
    /\ UNCHANGED <<Files, results_file, username, password, i, LoopVars, completed>>

LoadServerList ==
    /\ pc = "list"
    /\ IF list_file.status # "ok"
       THEN /\ pc' = "fatal"
            /\ UNCHANGED server_list
       ELSE /\ server_list' = ServerList(list_file.rows)
            /\ pc' = IF server_list' = <<>> THEN "fatal" ELSE "open"
    /\ UNCHANGED <<Files, results_file, username, password, i, LoopVars, completed>>

\* the sink opened in append mode
OpenSinkAppend ==
    /\ pc = "open"
    /\ results_file' = Append(results_file, Header)
    /\ i' = 1
    /\ pc' = "loop"
    /\ UNCHANGED <<Files, username, password, server_list, LoopVars, completed>>

OpenSink ==
    /\ pc = "open"
    /\ results_file' = <<Header>>
    /\ i' = 1
    /\ pc' = "loop"
    /\ UNCHANGED <<Files, username, password, server_list, LoopVars, completed>>

\* open() raises: the handler of line 150 ends the run
OpenSinkFail ==
    /\ pc = "open"
    /\ pc' = "sink_error"
    /\ UNCHANGED <<Files, results_file, username, password, server_list, i,
                   LoopVars, completed>>

\* the generic handler missing: an exception leaves the loop
QueryFromPropagate(S) ==
    /\ pc = "loop"
    /\ i <= Len(server_list)
    /\ \E p \in S :
         LET o == Classify(p)
         IN /\ process' = p
            /\ result_to_write' = (IF o.branch = "script_exception" THEN <<>> ELSE o.text)
            /\ branch' = o.branch
            /\ parse_attempted' = o.parsed
            /\ pc' = (IF o.branch = "script_exception" THEN "sink_error" ELSE "write")
    /\ queryLog' = Append(queryLog, i)
    /\ UNCHANGED <<Files, results_file, username, password, server_list, i, completed>>

QueryFrom(S) ==
    /\ pc = "loop"
    /\ i <= Len(server_list)
    /\ \E p \in S :
         LET o == Classify(p)
         IN /\ process' = p
            /\ result_to_write' = o.text
            /\ branch' = o.branch
            /\ parse_attempted' = o.parsed
    /\ queryLog' = Append(queryLog, i)
    /\ pc' = "write"
    /\ UNCHANGED <<Files, results_file, username, password, server_list, i, completed>>

Query == QueryFrom(Transports)

QueryWide == QueryFrom(WideTransports)

\* a failed query is tried again instead of moving on
WriteRowRetry ==
    /\ pc = "write"
    /\ results_file' = Append(results_file, <<server_list[i], result_to_write>>)
    /\ i' = (IF branch = "curl_error" THEN i ELSE i + 1)
    /\ pc' = "loop"
    /\ UNCHANGED <<Files, username, password, server_list, LoopVars, completed>>

WriteRow ==
    /\ pc = "write"
    /\ results_file' = Append(results_file, <<server_list[i], result_to_write>>)
    /\ i' = i + 1
    /\ pc' = "loop"
    /\ UNCHANGED <<Files, username, password, server_list, LoopVars, completed>>

\* writerow raises: the handler of line 150 ends the run
WriteRowFail ==
    /\ pc = "write"
    /\ pc' = "sink_error"
    /\ UNCHANGED <<Files, results_file, username, password, server_list, i,
                   LoopVars, completed>>

Finish ==
    /\ pc = "loop"
    /\ i > Len(server_list)
    /\ completed' = TRUE
    /\ pc' = "done"
    /\ UNCHANGED <<Files, results_file, username, password, server_list, i, LoopVars>>

Next ==
    \/ LoadCredentials
    \/ LoadServerList
    \/ OpenSink
    \/ OpenSinkFail
    \/ Query
    \/ WriteRow
    \/ WriteRowFail
    \/ Finish

Spec == Init /\ [][Next]_vars

\* every step of the program returns
LiveSpec == Init /\ [][Next]_vars /\ WF_vars(Next)

(* The loop of a run with valid credentials and two servers, entered with  *)
(* the sink just opened, over the large set of transport results.          *)
InitClassify ==
    /\ password_file = [status |-> "ok", lines |-> <<LineU, LineP>>]
    /\ list_file = [status |-> "ok", rows |-> << << <<"a">> >>, << <<" ", "b", " ">>, <<"x">> >> >>]
    /\ results0 = OldReport
    /\ results_file = <<Header>>
    /\ username = <<"u">>
    /\ password = <<"p">>
    /\ server_list = << <<"a">>, <<"b">> >>
    /\ i = 1
    /\ process = NoProcess
    /\ result_to_write = <<>>
    /\ branch = "none"
    /\ parse_attempted = FALSE
    /\ queryLog = <<>>
    /\ completed = FALSE
    /\ pc = "loop"

NextClassify ==
    \/ QueryWide
    \/ WriteRow
    \/ Finish

ClassifySpec == InitClassify /\ [][NextClassify]_vars

Terminated == pc \in {"done", "fatal", "sink_error"}

----------------------------------------------------------------------------
(* Vocabulary of the properties *)

\* the QueryOutcome kind a path through the loop body stands for
KindOf(b) ==
    CASE b = "serial" -> "Success"
      [] b = "curl_error" -> "TransportFailure"
      [] b = "no_response" -> "EmptyResponse"
      [] b = "unexpected" -> "MalformedResponse"
      [] b = "curl_not_found" -> "ToolingFailure"
      [] OTHER -> "Unclassified"

QueryOutcomeKinds ==
    {"Success", "TransportFailure", "EmptyResponse", "MalformedResponse", "ToolingFailure"}

NumTargets == Len(server_list)
DataRows == Len(results_file) - 1
Body == Strip(process.stdout)
Returned0 == pc = "write" /\ process.invoke = "returned" /\ process.returncode = 0

CredentialsValid ==
    /\ password_file.status = "ok"
    /\ Len(password_file.lines) >= 2
    /\ Strip(password_file.lines[1]) # <<>>
    /\ Strip(password_file.lines[2]) # <<>>

NoUsableTarget ==
    \A n \in 1..Len(list_file.rows) :
        list_file.rows[n] = <<>> \/ Strip(list_file.rows[n][1]) = <<>>

FatalConfiguration ==
    \/ ~CredentialsValid
    \/ list_file.status # "ok"
    \/ NoUsableTarget

MatchingBrackets(r) ==
    \/ r[1] = "{" /\ r[Len(r)] = "}"
    \/ r[1] = "[" /\ r[Len(r)] = "]"

AnyBrackets(r) == r[1] \in {"{", "["} /\ r[Len(r)] \in {"}", "]"}

----------------------------------------------------------------------------
(* C1: once the sink is open and while row writes succeed, the report is   *)
(* the header followed by one row per already processed target, in input   *)
(* order; a completed run has exactly one row per target and nothing of    *)
(* an earlier report.                                                      *)
C1_RowsFollowTargets ==
    pc \in {"loop", "write", "done"} =>
        /\ results_file[1] = Header
        /\ DataRows = i - 1
        /\ DataRows <= NumTargets
        /\ \A k \in 1..DataRows : results_file[k + 1][1] = server_list[k]
        /\ pc = "done" => DataRows = NumTargets

C1_Witness ==
    /\ pc = "done"
    /\ results0 = OldReport
    /\ NumTargets = 2
    /\ server_list[1] = server_list[2]
    /\ DataRows = 2

(* C2: a query step always hands its target to the row write, whatever the *)
(* transport result was, with the text determined by that result alone;    *)
(* the row write appends that text for that target and moves to the next   *)
(* target; the loop is left only after the last target.                    *)
C2_Step ==
    /\ (pc = "loop" /\ i <= NumTargets) =>
          /\ pc' = "write"
          /\ i' = i
          /\ result_to_write' = Classify(process').text
          /\ results_file' = results_file
    /\ (pc = "write" /\ pc' # "sink_error") =>
          /\ pc' = "loop"
          /\ i' = i + 1
          /\ results_file' = Append(results_file, <<server_list[i], Classify(process).text>>)
    /\ (pc = "loop" /\ pc' = "done") => DataRows = NumTargets

C2_FailureIsolation == [][C2_Step]_vars

C2_Witness ==
    /\ pc = "done"
    /\ NumTargets = 2
    /\ results_file[2][2] = <<ScriptExceptionPrefix, JSONDecodeErrorMsg>>
    /\ results_file[3][2] = <<"A">>

(* C3: with a fatal configuration error no query is issued, the sink is    *)
(* never opened and an earlier report stays as it was.                     *)
C3_FatalConfigNoEffect ==
    FatalConfiguration =>
        /\ pc \in {"creds", "list", "fatal"}
        /\ queryLog = <<>>
        /\ results_file = results0

C3_Witness ==
    /\ pc = "fatal"
    /\ password_file = [status |-> "ok", lines |-> <<LineU>>]
    /\ results0 = OldReport
    /\ results_file = OldReport

(* C4: a non-zero exit status yields the curl error text with the exit     *)
(* status and the trimmed stderr, or the default text when that is empty,  *)
(* whatever stdout holds; exit status 0 with an empty trimmed stdout       *)
(* yields the no-response text, whatever stderr holds.                     *)
C4_Precedence ==
    (pc = "write" /\ process.invoke = "returned") =>
        /\ process.returncode # 0 =>
              /\ branch = "curl_error"
              /\ ~parse_attempted
              /\ result_to_write =
                    <<CurlErrorPrefix>> \o DecStr(process.returncode) \o <<CurlErrorInfix>>
                    \o (IF Strip(process.stderr) = <<>> THEN <<UnknownCurlError>>
                        ELSE Strip(process.stderr))
        /\ branch = "curl_error" => process.returncode # 0
        /\ (process.returncode = 0 /\ Body = <<>>) =>
              /\ branch = "no_response"
              /\ result_to_write = <<NoResponseMsg>>

C4_Witness ==
    /\ pc = "write"
    /\ process = Proc("returned", 28, BodySn, <<" ">>)
    /\ result_to_write = <<CurlErrorPrefix, "2", "8", CurlErrorInfix, UnknownCurlError>>

(* C5: exit status 0 and a body that parses as a JSON object give the      *)
(* string form of its top-level sn member, or SN_NOT_FOUND when it has     *)
(* none; the other members make no difference.                             *)
C5_SerialExtraction ==
    /\ (Returned0 /\ JsonLoads(Body).ok /\ JsonLoads(Body).val.t = "obj") =>
          LET d == JsonLoads(Body).val
              at == {n \in 1..Len(d.keys) : d.keys[n] = SnKey}
          IN /\ branch = "serial"
             /\ at = {} => result_to_write = <<SnNotFound>>
             /\ \A n \in at : result_to_write = PyStr(d.kids[n])
    /\ (Returned0 /\ process.stdout \in {BodySn, BodySnOther}) => result_to_write = <<"A">>
    /\ (Returned0 /\ process.stdout \in {BodyOther, BodyEmptyObj, BodyNested}) =>
          result_to_write = <<SnNotFound>>

C5_Witness ==
    /\ Returned0
    /\ process.stdout = BodySnOther
    /\ branch = "serial"
    /\ result_to_write = <<"A">>

(* C6: exit status 0 and a body that passes the bracket check but is not   *)
(* valid JSON give the same outcome as a body failing the bracket check:   *)
(* the unexpected-response text carrying the body.                         *)
C6_ParseFailureIsMalformed ==
    (Returned0 /\ Body # <<>> /\ MatchingBrackets(Body) /\ ~JsonLoads(Body).ok) =>
        /\ KindOf(branch) = "MalformedResponse"
        /\ result_to_write = <<UnexpectedPrefix>> \o Body

(* C7: every transport result gets exactly one of the five QueryOutcome    *)
(* kinds, ToolingFailure exactly when curl could not be invoked.           *)
C7_ClassificationTotal ==
    pc = "write" =>
        /\ KindOf(branch) \in QueryOutcomeKinds
        /\ KindOf(branch) = "ToolingFailure" <=> process.invoke # "returned"

(* C8 as stated: a run over a loaded target sequence of length N >= 0 that *)
(* ends without a sink failure leaves the header and exactly N data rows.  *)
C8_RowCountFromZero ==
    (pc \in {"done", "fatal"} /\ CredentialsValid /\ list_file.status = "ok") =>
        /\ results_file # <<>>
        /\ results_file[1] = Header
        /\ DataRows = Len(ServerList(list_file.rows))

(* C8 amended: a completed run has N >= 1 targets and exactly N data rows; *)
(* a target sequence of length zero ends the run before the sink is        *)
(* opened, so no report is produced and an earlier one is left as it was.  *)
C8_RowCountFromOne ==
    /\ pc = "done" =>
          /\ NumTargets >= 1
          /\ results_file[1] = Header
          /\ DataRows = NumTargets
    /\ (CredentialsValid /\ list_file.status = "ok" /\ NoUsableTarget) =>
          /\ pc \in {"creds", "list", "fatal"}
          /\ results_file = results0

C8_Witness ==
    /\ pc = "fatal"
    /\ CredentialsValid
    /\ list_file.status = "ok"
    /\ Len(list_file.rows) = 2
    /\ server_list = <<>>
    /\ results_file = OldReport

C10_Inv ==
    /\ \A n \in 1..Len(queryLog) : queryLog[n] = n
    /\ Len(queryLog) <= NumTargets
    /\ pc = "loop" => DataRows = Len(queryLog)
    /\ pc = "write" => (DataRows = Len(queryLog) - 1 /\ i = Len(queryLog))
    /\ completed <=> pc = "done"
    /\ completed => (Len(queryLog) = NumTargets /\ DataRows = NumTargets)

C10_Sequential == []C10_Inv /\ <>Terminated

C10_Witness ==
    /\ pc = "done"
    /\ completed
    /\ queryLog = <<1, 2>>
    /\ KindOf(branch) = "TransportFailure"

====
